---- MODULE Spec2Model ----
(***************************************************************************)
(* Zero-copy ARP packet view (wire/arp.rs): the field layout calculator,   *)
(* the Packet view over a byte buffer with its accessors and mutators, and *)
(* the Repr converter (parse / emit) for the Ethernet + IPv4 combination.  *)
(*                                                                         *)
(* A buffer is a sequence of bytes (0..255).  Offsets are the 0-based      *)
(* offsets of the source; a Field is a half-open range start..end.         *)
(* An operation that can panic yields a record with a panic flag; a panic  *)
(* of a mutator is raised before its write, so the bytes it carries are    *)
(* the bytes the buffer holds when the panic unwinds.                      *)
(***************************************************************************)
EXTENDS Integers, Sequences, FiniteSets, TLC

VARIABLES
    buffer,   \* the caller's storage: the bytes a view wraps
    state,    \* "storage" | "packet" | "err" | "panic"
    last,     \* the last call: its name, argument, result and the bytes before it
              \* (for parse, which takes no argument: the last call before it
              \* that was not a parse)
    repr,     \* the Repr the caller holds from its last successful parse
    muts,     \* number of mutator calls made so far
    pc        \* 0: generic client; 1..10: position in test_construct

vars == <<buffer, state, last, repr, muts, pc>>

----------------------------------------------------------------------------
(* Bounds of the model *)

\* Number of mutator calls (setters, emit) the generic client makes.
MaxMut == 2

----------------------------------------------------------------------------
(* Bytes and the byte-order primitives *)

U8Max == 255

Byte == 0..U8Max

\* NetworkEndian::read_u16: big-endian decode of a two-byte slice.
read_u16(s) == s[1] * 256 + s[2]

\* NetworkEndian::write_u16: big-endian encode into a two-byte slice.
write_u16(n) == <<n \div 256, n % 256>>

----------------------------------------------------------------------------
(* mod field *)

Field(s, e) == [start |-> s, end |-> e]

HTYPE == Field(0, 2)

PTYPE == Field(2, 4)

HLEN == 4

PLEN == 5

OPER == Field(6, 8)

SHA(hardware_length, protocol_length) ==
    LET start == OPER.end
    IN  Field(start, start + hardware_length)

\* Faulty variant: the source protocol address sized by the hardware length.
SPA_hardware_sized(hardware_length, protocol_length) ==
    LET start == SHA(hardware_length, protocol_length).end
    IN  Field(start, start + hardware_length)

SPA(hardware_length, protocol_length) ==
    LET start == SHA(hardware_length, protocol_length).end
    IN  Field(start, start + protocol_length)

THA(hardware_length, protocol_length) ==
    LET start == SPA(hardware_length, protocol_length).end
    IN  Field(start, start + hardware_length)

TPA(hardware_length, protocol_length) ==
    LET start == THA(hardware_length, protocol_length).end
    IN  Field(start, start + protocol_length)

----------------------------------------------------------------------------
(* Slices: bytes[field] and bytes[index], with the bounds check of the     *)
(* language: an index or a range end past the length panics.               *)

InBounds(bytes, f) == f.start <= f.end /\ f.end <= Len(bytes)

\* &bytes[f]
Slice(bytes, f) ==
    IF InBounds(bytes, f)
    THEN [panic |-> FALSE, val |-> SubSeq(bytes, f.start + 1, f.end)]
    ELSE [panic |-> TRUE, val |-> <<>>]

\* Faulty variant: a copy that writes the bytes that fit instead of panicking when
\* the two lengths differ.
CopyFromSlice_truncating(bytes, f, value) ==
    IF InBounds(bytes, f)
    THEN [panic |-> FALSE,
          bytes |-> [i \in 1..Len(bytes) |->
                        IF f.start < i /\ i <= f.end /\ i - f.start <= Len(value)
                        THEN value[i - f.start] ELSE bytes[i]]]
    ELSE [panic |-> TRUE, bytes |-> bytes]

\* bytes[f].copy_from_slice(value): the range is indexed first, then the
\* two lengths must agree; either failure panics before any byte is written.
CopyFromSlice(bytes, f, value) ==
    IF InBounds(bytes, f) /\ Len(value) = f.end - f.start
    THEN [panic |-> FALSE,
          bytes |-> [i \in 1..Len(bytes) |->
                        IF f.start < i /\ i <= f.end
                        THEN value[i - f.start] ELSE bytes[i]]]
    ELSE [panic |-> TRUE, bytes |-> bytes]

\* bytes[index] = value
StoreByte(bytes, index, value) ==
    IF index < Len(bytes)
    THEN [panic |-> FALSE, bytes |-> [bytes EXCEPT ![index + 1] = value]]
    ELSE [panic |-> TRUE, bytes |-> bytes]

----------------------------------------------------------------------------
(* The enumerations with an unknown variant (enum_with_unknown!): named    *)
(* variants for the recognised codes and Unknown(raw) for every other one. *)
(* A value is a record with a tag; Unknown carries its raw 16-bit code.    *)

Unknown(raw) == [tag |-> "Unknown", raw |-> raw]

Ethernet == [tag |-> "Ethernet"]

Ipv4 == [tag |-> "Ipv4"]

Request == [tag |-> "Request"]

Reply == [tag |-> "Reply"]

\* The code of each named variant.
EthernetCode == 1

Ipv4Code == 2048

RequestCode == 1

ReplyCode == 2

\* HardwareType::from(u16)
HardwareTypeFrom(raw) ==
    IF raw = EthernetCode THEN Ethernet ELSE Unknown(raw)

\* u16::from(HardwareType)
HardwareTypeInto(value) ==
    IF value.tag = "Ethernet" THEN EthernetCode ELSE value.raw

\* ProtocolType::from(u16)
ProtocolTypeFrom(raw) ==
    IF raw = Ipv4Code THEN Ipv4 ELSE Unknown(raw)

\* u16::from(ProtocolType)
ProtocolTypeInto(value) ==
    IF value.tag = "Ipv4" THEN Ipv4Code ELSE value.raw

\* Operation::from(u16)
OperationFrom(raw) ==
    IF raw = RequestCode THEN Request
    ELSE IF raw = ReplyCode THEN Reply
    ELSE Unknown(raw)

\* u16::from(Operation)
OperationInto(value) ==
    IF value.tag = "Request" THEN RequestCode
    ELSE IF value.tag = "Reply" THEN ReplyCode
    ELSE value.raw

----------------------------------------------------------------------------
(* The fixed-size address types: construct from a byte slice (which must   *)
(* have the type's size) and view as a byte slice.                         *)

EthernetAddressLen == 6

Ipv4AddressLen == 4

\* EthernetAddress::from_bytes
EthernetAddress_from_bytes(data) ==
    IF Len(data) = EthernetAddressLen
    THEN [panic |-> FALSE, val |-> data]
    ELSE [panic |-> TRUE, val |-> <<>>]

\* Ipv4Address::from_bytes
Ipv4Address_from_bytes(data) ==
    IF Len(data) = Ipv4AddressLen
    THEN [panic |-> FALSE, val |-> data]
    ELSE [panic |-> TRUE, val |-> <<>>]

\* EthernetAddress::as_bytes, Ipv4Address::as_bytes
as_bytes(addr) == addr

----------------------------------------------------------------------------
(* impl Packet<T: AsRef<[u8]>> : the accessors.  Each yields               *)
(* [panic, val]; val is meaningful when panic is FALSE.                    *)

\* The value an accessor returns for a slice r it read: decoded, unless
\* reading the slice panicked.
Decoded(r, val) ==
    IF r.panic THEN [panic |-> TRUE, val |-> <<>>]
    ELSE [panic |-> FALSE, val |-> val]

\* bytes[index]
LoadByte(bytes, index) ==
    IF index < Len(bytes)
    THEN [panic |-> FALSE, val |-> bytes[index + 1]]
    ELSE [panic |-> TRUE, val |-> 0]

hardware_type(bytes) ==
    LET r == Slice(bytes, HTYPE)
    IN  Decoded(r, IF r.panic THEN <<>> ELSE HardwareTypeFrom(read_u16(r.val)))

protocol_type(bytes) ==
    LET r == Slice(bytes, PTYPE)
    IN  Decoded(r, IF r.panic THEN <<>> ELSE ProtocolTypeFrom(read_u16(r.val)))

hardware_length(bytes) == LoadByte(bytes, HLEN)

protocol_length(bytes) == LoadByte(bytes, PLEN)

operation(bytes) ==
    LET r == Slice(bytes, OPER)
    IN  Decoded(r, IF r.panic THEN <<>> ELSE OperationFrom(read_u16(r.val)))

\* The address accessors read both length fields, then slice.

source_hardware_addr(bytes) ==
    LET hl == hardware_length(bytes)
        pl == protocol_length(bytes)
    IN  IF hl.panic \/ pl.panic THEN [panic |-> TRUE, val |-> <<>>]
        ELSE Slice(bytes, SHA(hl.val, pl.val))

\* Faulty variant: the source protocol address read from the target's range.
source_protocol_addr_from_tpa(bytes) ==
    LET hl == hardware_length(bytes)
        pl == protocol_length(bytes)
    IN  IF hl.panic \/ pl.panic THEN [panic |-> TRUE, val |-> <<>>]
        ELSE Slice(bytes, TPA(hl.val, pl.val))

source_protocol_addr(bytes) ==
    LET hl == hardware_length(bytes)
        pl == protocol_length(bytes)
    IN  IF hl.panic \/ pl.panic THEN [panic |-> TRUE, val |-> <<>>]
        ELSE Slice(bytes, SPA(hl.val, pl.val))

target_hardware_addr(bytes) ==
    LET hl == hardware_length(bytes)
        pl == protocol_length(bytes)
    IN  IF hl.panic \/ pl.panic THEN [panic |-> TRUE, val |-> <<>>]
        ELSE Slice(bytes, THA(hl.val, pl.val))

target_protocol_addr(bytes) ==
    LET hl == hardware_length(bytes)
        pl == protocol_length(bytes)
    IN  IF hl.panic \/ pl.panic THEN [panic |-> TRUE, val |-> <<>>]
        ELSE Slice(bytes, TPA(hl.val, pl.val))

\* Faulty variant: construction without the check of the fixed header's length.
new_without_header_check(storage) ==
    LET len == Len(storage)
        hl == hardware_length(storage)
        pl == protocol_length(storage)
    IN  IF hl.panic \/ pl.panic THEN "panic"
        ELSE IF len < TPA(hl.val, pl.val).end THEN "err"
        ELSE "ok"

\* Packet::new: "ok" wraps the storage, "err" is Err(()), "panic" aborts.
new(storage) ==
    LET len == Len(storage)
    IN  IF len < OPER.end THEN "err"
        ELSE LET hl == hardware_length(storage)
                 pl == protocol_length(storage)
             IN  IF hl.panic \/ pl.panic THEN "panic"
                 ELSE IF len < TPA(hl.val, pl.val).end THEN "err"
                 ELSE "ok"

----------------------------------------------------------------------------
(* impl Packet<T: AsRef<[u8]> + AsMut<[u8]>> : the mutators.  Each yields  *)
(* [panic, bytes]: the buffer after the call.                              *)

set_hardware_type(bytes, value) ==
    CopyFromSlice(bytes, HTYPE, write_u16(HardwareTypeInto(value)))

set_protocol_type(bytes, value) ==
    CopyFromSlice(bytes, PTYPE, write_u16(ProtocolTypeInto(value)))

set_hardware_length(bytes, value) == StoreByte(bytes, HLEN, value)

\* Faulty variant: the protocol length stored at the hardware length's offset.
set_protocol_length_at_hlen(bytes, value) == StoreByte(bytes, HLEN, value)

set_protocol_length(bytes, value) == StoreByte(bytes, PLEN, value)

\* Faulty variant: the operation stored little-endian.
set_operation_little_endian(bytes, value) ==
    CopyFromSlice(bytes, OPER, <<OperationInto(value) % 256,
                                 OperationInto(value) \div 256>>)

set_operation(bytes, value) ==
    CopyFromSlice(bytes, OPER, write_u16(OperationInto(value)))

\* The address mutators read both length fields, then copy into the range.
set_source_hardware_addr(bytes, value) ==
    LET hl == hardware_length(bytes)
        pl == protocol_length(bytes)
    IN  IF hl.panic \/ pl.panic THEN [panic |-> TRUE, bytes |-> bytes]
        ELSE CopyFromSlice(bytes, SHA(hl.val, pl.val), value)

set_source_protocol_addr(bytes, value) ==
    LET hl == hardware_length(bytes)
        pl == protocol_length(bytes)
    IN  IF hl.panic \/ pl.panic THEN [panic |-> TRUE, bytes |-> bytes]
        ELSE CopyFromSlice(bytes, SPA(hl.val, pl.val), value)

set_target_hardware_addr(bytes, value) ==
    LET hl == hardware_length(bytes)
        pl == protocol_length(bytes)
    IN  IF hl.panic \/ pl.panic THEN [panic |-> TRUE, bytes |-> bytes]
        ELSE CopyFromSlice(bytes, THA(hl.val, pl.val), value)

set_target_protocol_addr(bytes, value) ==
    LET hl == hardware_length(bytes)
        pl == protocol_length(bytes)
    IN  IF hl.panic \/ pl.panic THEN [panic |-> TRUE, bytes |-> bytes]
        ELSE CopyFromSlice(bytes, TPA(hl.val, pl.val), value)

----------------------------------------------------------------------------
(* enum Repr and impl Repr *)

EthernetIpv4(op, sha, spa, tha, tpa) ==
    [tag |-> "EthernetIpv4", operation |-> op,
     source_hardware_addr |-> sha, source_protocol_addr |-> spa,
     target_hardware_addr |-> tha, target_protocol_addr |-> tpa]

Nonexhaustive == [tag |-> "__Nonexhaustive"]

NoRepr == [tag |-> "none"]

ParsePanic == [panic |-> TRUE, ok |-> FALSE, val |-> NoRepr]

ParseErr == [panic |-> FALSE, ok |-> FALSE, val |-> NoRepr]

\* Faulty variant: a match on the two types alone.
Recognised_by_types(ht, pt, hl, pl) ==
    ht.tag = "Ethernet" /\ pt.tag = "Ipv4"

\* The pattern (HardwareType::Ethernet, ProtocolType::Ipv4, 6, 4) of parse.
Recognised(ht, pt, hl, pl) ==
    ht.tag = "Ethernet" /\ pt.tag = "Ipv4" /\ hl = 6 /\ pl = 4

\* Repr::parse: [panic, ok, val]; ok with val = the Repr, or Err(()).
parse(bytes) ==
    LET ht == hardware_type(bytes)
        pt == protocol_type(bytes)
        hl == hardware_length(bytes)
        pl == protocol_length(bytes)
    IN  IF ht.panic \/ pt.panic \/ hl.panic \/ pl.panic THEN ParsePanic
        ELSE IF Recognised(ht.val, pt.val, hl.val, pl.val)
        THEN LET op  == operation(bytes)
                 sha == source_hardware_addr(bytes)
                 spa == source_protocol_addr(bytes)
                 tha == target_hardware_addr(bytes)
                 tpa == target_protocol_addr(bytes)
             IN  IF \/ op.panic \/ sha.panic \/ spa.panic
                    \/ tha.panic \/ tpa.panic
                 THEN ParsePanic
                 ELSE LET esha == EthernetAddress_from_bytes(sha.val)
                          ispa == Ipv4Address_from_bytes(spa.val)
                          etha == EthernetAddress_from_bytes(tha.val)
                          itpa == Ipv4Address_from_bytes(tpa.val)
                      IN  IF \/ esha.panic \/ ispa.panic
                             \/ etha.panic \/ itpa.panic
                          THEN ParsePanic
                          ELSE [panic |-> FALSE, ok |-> TRUE,
                                val |-> EthernetIpv4(op.val, esha.val, ispa.val,
                                                     etha.val, itpa.val)]
        ELSE ParseErr

\* Faulty variant: the four addresses written before the two length fields.
emit_addresses_first(self, bytes) ==
    IF self.tag # "EthernetIpv4" THEN [panic |-> TRUE, bytes |-> bytes]
    ELSE
    LET r1 == set_hardware_type(bytes, Ethernet)
        r2 == IF r1.panic THEN r1
              ELSE set_protocol_type(r1.bytes, Ipv4)
        r3 == IF r2.panic THEN r2
              ELSE set_operation(r2.bytes, self.operation)
        r4 == IF r3.panic THEN r3
              ELSE set_source_hardware_addr(r3.bytes, as_bytes(self.source_hardware_addr))
        r5 == IF r4.panic THEN r4
              ELSE set_source_protocol_addr(r4.bytes, as_bytes(self.source_protocol_addr))
        r6 == IF r5.panic THEN r5
              ELSE set_target_hardware_addr(r5.bytes, as_bytes(self.target_hardware_addr))
        r7 == IF r6.panic THEN r6
              ELSE set_target_protocol_addr(r6.bytes, as_bytes(self.target_protocol_addr))
        r8 == IF r7.panic THEN r7
              ELSE set_hardware_length(r7.bytes, 6)
        r9 == IF r8.panic THEN r8
              ELSE set_protocol_length(r8.bytes, 4)
    IN  r9

\* Repr::emit: the nine mutator calls in the order of the source; each runs
\* unless an earlier one panicked, and a panic ends the call with the bytes
\* written so far.
emit(self, bytes) ==
    IF self.tag # "EthernetIpv4" THEN [panic |-> TRUE, bytes |-> bytes]
    ELSE
    LET r1 == set_hardware_type(bytes, Ethernet)
        r2 == IF r1.panic THEN r1
              ELSE set_protocol_type(r1.bytes, Ipv4)
        r3 == IF r2.panic THEN r2
              ELSE set_hardware_length(r2.bytes, 6)
        r4 == IF r3.panic THEN r3
              ELSE set_protocol_length(r3.bytes, 4)
        r5 == IF r4.panic THEN r4
              ELSE set_operation(r4.bytes, self.operation)
        r6 == IF r5.panic THEN r5
              ELSE set_source_hardware_addr(r5.bytes, as_bytes(self.source_hardware_addr))
        r7 == IF r6.panic THEN r6
              ELSE set_source_protocol_addr(r6.bytes, as_bytes(self.source_protocol_addr))
        r8 == IF r7.panic THEN r7
              ELSE set_target_hardware_addr(r7.bytes, as_bytes(self.target_hardware_addr))
        r9 == IF r8.panic THEN r8
              ELSE set_target_protocol_addr(r8.bytes, as_bytes(self.target_protocol_addr))
    IN  r9

----------------------------------------------------------------------------
(* mod test: the literal packet and its Repr *)

PACKET_BYTES ==
    << 0, 1,
       8, 0,
       6,
       4,
       0, 1,
       17, 18, 19, 20, 21, 22,
       33, 34, 35, 36,
       49, 50, 51, 52, 53, 54,
       65, 66, 67, 68 >>

packet_repr ==
    EthernetIpv4(Request,
                 <<17, 18, 19, 20, 21, 22>>, <<33, 34, 35, 36>>,
                 <<49, 50, 51, 52, 53, 54>>, <<65, 66, 67, 68>>)

\* vec![0; n]
Zeros(n) == [i \in 1..n |-> 0]

----------------------------------------------------------------------------
(* Inputs of the model: the buffers a client starts from and the values it *)
(* passes to the mutators.                                                 *)

\* Bytes following the 8-byte header of a sample buffer.
SampleBody == SubSeq(PACKET_BYTES, 9, 28) \o <<81, 82>>

\* Header field values: the recognised codes and lengths, the byte-swapped
\* codes, unknown codes, zero lengths and the largest length.
SampleHeaders ==
    { write_u16(ht) \o write_u16(pt) \o <<hl, pl>> \o write_u16(op) :
        ht \in {1, 256}, pt \in {2048, 8}, hl \in {0, 6, U8Max},
        pl \in {0, 4}, op \in {1, 772} }

\* Buffer lengths around every length the sample headers require.
SampleLens == {0, 5, 7, 8, 15, 16, 19, 20, 27, 28, 29}

InitBuffers ==
    { SubSeq(h \o SampleBody, 1, n) : h \in SampleHeaders, n \in SampleLens }

AllocLens == {8, 28, 29}

HardwareTypeInputs == {Ethernet, Unknown(1), Unknown(258)}

ProtocolTypeInputs == {Ipv4, Unknown(2048), Unknown(2054)}

LengthInputs == {0, 4, 6, U8Max}

OperationInputs == {Request, Reply, Unknown(1), Unknown(772)}

\* Address values of several lengths, distinct from the sample bodies.
AddrValue(n, base) == [i \in 1..n |-> base + i]

AddrInputs == { AddrValue(n, 160) : n \in {0, 4, 5, 6} }

ReprInputs ==
    { packet_repr,
      [packet_repr EXCEPT !.operation = Unknown(2)],
      [packet_repr EXCEPT !.operation = Unknown(772)],
      EthernetIpv4(Reply, AddrValue(6, 160), AddrValue(4, 176),
                   AddrValue(6, 192), AddrValue(4, 208)),
      Nonexhaustive }

----------------------------------------------------------------------------
(* The state machine: a client that wraps a buffer, calls the mutators,    *)
(* parses, emits and unwraps; and the test test_construct.                 *)

NoCall == [op |-> "none", arg |-> <<>>, before |-> <<>>, ret |-> "none"]

Call(op, arg, before, ret) ==
    [op |-> op, arg |-> arg, before |-> before, ret |-> ret]

Held(value, from) == [tag |-> "held", value |-> value, from |-> from]

Init ==
    /\ \/ pc = 0 /\ buffer \in InitBuffers
       \/ pc = 1 /\ buffer = Zeros(28)
    /\ state = "storage"
    /\ last = NoCall
    /\ repr = NoRepr
    /\ muts = 0

\* let packet = Packet::new(storage)
New ==
    /\ pc = 0
    /\ state = "storage"
    /\ LET r == new(buffer)
       IN  /\ state' = (IF r = "ok" THEN "packet" ELSE r)
           /\ last' = Call("new", <<>>, buffer, r)
    /\ UNCHANGED <<buffer, repr, muts, pc>>

\* packet.into_inner()
IntoInner ==
    /\ pc = 0
    /\ state = "packet"
    /\ state' = "storage"
    /\ last' = Call("into_inner", <<>>, buffer, "storage")
    /\ UNCHANGED <<buffer, repr, muts, pc>>

\* let mut bytes = vec![0; n]
Alloc(n) ==
    /\ pc = 0
    /\ state \in {"storage", "err"}
    /\ buffer' = Zeros(n)
    /\ state' = "storage"
    /\ last' = Call("alloc", n, buffer, "storage")
    /\ UNCHANGED <<repr, muts, pc>>

\* The effect of a mutator call whose result is r.
Mutate(op, arg, r) ==
    /\ pc = 0
    /\ state = "packet"
    /\ muts < MaxMut
    /\ buffer' = r.bytes
    /\ state' = (IF r.panic THEN "panic" ELSE "packet")
    /\ last' = Call(op, arg, buffer, IF r.panic THEN "panic" ELSE "unit")
    /\ muts' = muts + 1
    /\ UNCHANGED <<repr, pc>>

SetHardwareType(v) ==
    Mutate("set_hardware_type", v, set_hardware_type(buffer, v))

SetProtocolType(v) ==
    Mutate("set_protocol_type", v, set_protocol_type(buffer, v))

SetHardwareLength(v) ==
    Mutate("set_hardware_length", v, set_hardware_length(buffer, v))

SetProtocolLength(v) ==
    Mutate("set_protocol_length", v, set_protocol_length(buffer, v))

SetOperation(v) ==
    Mutate("set_operation", v, set_operation(buffer, v))

SetSourceHardwareAddr(v) ==
    Mutate("set_source_hardware_addr", v, set_source_hardware_addr(buffer, v))

SetSourceProtocolAddr(v) ==
    Mutate("set_source_protocol_addr", v, set_source_protocol_addr(buffer, v))

SetTargetHardwareAddr(v) ==
    Mutate("set_target_hardware_addr", v, set_target_hardware_addr(buffer, v))

SetTargetProtocolAddr(v) ==
    Mutate("set_target_protocol_addr", v, set_target_protocol_addr(buffer, v))

\* let repr = Repr::parse(&packet)
Parse ==
    /\ pc = 0
    /\ state = "packet"
    /\ LET r == parse(buffer)
       IN  /\ last' = Call("parse", IF last.op = "parse" THEN last.arg ELSE last,
                            buffer, r)
           /\ state' = (IF r.panic THEN "panic" ELSE "packet")
           /\ repr' = (IF r.ok THEN Held(r.val, buffer) ELSE repr)
    /\ UNCHANGED <<buffer, muts, pc>>

\* repr.emit(&mut packet), for a Repr the client built or parsed
Emit(r) == Mutate("emit", r, emit(r, buffer))

EmitInputs == ReprInputs \cup (IF repr.tag = "held" THEN {repr.value} ELSE {})

\* The statements of test_construct, one per step.
TestConstructCall(i, b) ==
    CASE i = 2  -> set_hardware_type(b, Ethernet)
      [] i = 3  -> set_protocol_type(b, Ipv4)
      [] i = 4  -> set_hardware_length(b, 6)
      [] i = 5  -> set_protocol_length(b, 4)
      [] i = 6  -> set_operation(b, Request)
      [] i = 7  -> set_source_hardware_addr(b, <<17, 18, 19, 20, 21, 22>>)
      [] i = 8  -> set_source_protocol_addr(b, <<33, 34, 35, 36>>)
      [] i = 9  -> set_target_hardware_addr(b, <<49, 50, 51, 52, 53, 54>>)
      [] i = 10 -> set_target_protocol_addr(b, <<65, 66, 67, 68>>)

test_construct ==
    /\ pc \in 1..11
    /\ state \in {"storage", "packet"}
    /\ pc' = pc + 1
    /\ UNCHANGED repr
    /\ \/ /\ pc = 1
          /\ state' = (IF new(buffer) = "ok" THEN "packet" ELSE "panic")
          /\ last' = Call("new", <<>>, buffer, new(buffer))
          /\ UNCHANGED <<buffer, muts>>
       \/ /\ pc \in 2..10
          /\ LET r == TestConstructCall(pc, buffer)
             IN  /\ buffer' = r.bytes
                 /\ state' = (IF r.panic THEN "panic" ELSE "packet")
                 /\ last' = Call("test_construct", pc, buffer,
                                 IF r.panic THEN "panic" ELSE "unit")
          /\ muts' = muts + 1
       \/ /\ pc = 11
          /\ state' = (IF buffer = PACKET_BYTES THEN "storage" ELSE "panic")
          /\ last' = Call("assert_eq", <<>>, buffer, "unit")
          /\ UNCHANGED <<buffer, muts>>

Next ==
    \/ New
    \/ IntoInner
    \/ \E n \in AllocLens : Alloc(n)
    \/ \E v \in HardwareTypeInputs : SetHardwareType(v)
    \/ \E v \in ProtocolTypeInputs : SetProtocolType(v)
    \/ \E v \in LengthInputs : SetHardwareLength(v)
    \/ \E v \in LengthInputs : SetProtocolLength(v)
    \/ \E v \in OperationInputs : SetOperation(v)
    \/ \E v \in AddrInputs : SetSourceHardwareAddr(v)
    \/ \E v \in AddrInputs : SetSourceProtocolAddr(v)
    \/ \E v \in AddrInputs : SetTargetHardwareAddr(v)
    \/ \E v \in AddrInputs : SetTargetProtocolAddr(v)
    \/ Parse
    \/ \E r \in EmitInputs : Emit(r)
    \/ test_construct

Spec == Init /\ [][Next]_vars

----------------------------------------------------------------------------
(* The field layout calculator on its own: every pair of length bytes.     *)

InitLayout ==
    /\ buffer = <<>>
    /\ state = "storage"
    /\ \E h \in Byte, p \in Byte : last = Call("lengths", <<h, p>>, <<>>, "none")
    /\ repr = NoRepr
    /\ muts = 0
    /\ pc = 0

\* field::SHA, field::SPA, field::THA and field::TPA of the pair of lengths
Layout ==
    /\ last.op = "lengths"
    /\ LET h == last.arg[1]
           p == last.arg[2]
       IN  last' = Call("layout", <<h, p>>, <<>>,
                        <<SHA(h, p), SPA(h, p), THA(h, p), TPA(h, p)>>)
    /\ UNCHANGED <<buffer, state, repr, muts, pc>>

NextLayout == Layout

SpecLayout == InitLayout /\ [][NextLayout]_vars

----------------------------------------------------------------------------
(* Properties.  They read the header of a buffer by position, not through  *)
(* the accessors above.                                                    *)

\* The length the header of b declares: 8 + 2*HLEN + 2*PLEN.
Declared(b) == 8 + 2 * b[5] + 2 * b[6]

\* A buffer a view can be constructed on.
WellFormed(b) == Len(b) >= 8 /\ Len(b) >= Declared(b)

AddrSetters ==
    {"set_source_hardware_addr", "set_source_protocol_addr",
     "set_target_hardware_addr", "set_target_protocol_addr"}

\* C1: Packet::new returns Err, without a panic, for every buffer shorter
\* than 8 bytes and for every longer buffer shorter than 8 + 2*HLEN + 2*PLEN;
\* for every other buffer it returns a view wrapping that same buffer.
C1_NewValidates ==
    last.op = "new" =>
        /\ last.ret # "panic"
        /\ (last.ret = "err") <=> ~WellFormed(last.before)
        /\ (last.ret = "ok") <=> WellFormed(last.before)
        /\ last.ret = "ok" => state = "packet" /\ buffer = last.before
        /\ last.ret = "err" => state = "err"

\* A buffer with a full header whose declared length it does not reach is
\* refused.
C1_Witness ==
    /\ last.op = "new"
    /\ last.ret = "err"
    /\ Len(last.before) = 27
    /\ Declared(last.before) = 28

\* C2 (as claimed): while a view exists, after any sequence of mutator
\* calls, the buffer is at least 8 + 2*HLEN + 2*PLEN bytes long and every
\* address accessor indexes within the buffer.
C2_ViewInvariant ==
    state = "packet" =>
        /\ WellFormed(buffer)
        /\ ~source_hardware_addr(buffer).panic
        /\ ~source_protocol_addr(buffer).panic
        /\ ~target_hardware_addr(buffer).panic
        /\ ~target_protocol_addr(buffer).panic

\* C6 (as claimed): for all length pairs in 0..255 the four ranges are
\* contiguous from offset 8, non-overlapping and strictly increasing in
\* offset, SHA and THA of length HLEN, SPA and TPA of length PLEN, and TPA
\* ends at 8 + 2*HLEN + 2*PLEN.
C6_LayoutStrict ==
    last.op = "layout" =>
        LET h == last.arg[1]
            p == last.arg[2]
            f == last.ret
        IN  /\ f[1].start = 8
            /\ \A i \in 1..3 : f[i + 1].start = f[i].end
            /\ \A i \in 1..3 : f[i].start < f[i + 1].start
            /\ f[1].end - f[1].start = h /\ f[3].end - f[3].start = h
            /\ f[2].end - f[2].start = p /\ f[4].end - f[4].start = p
            /\ f[4].end = 8 + 2 * h + 2 * p

\* C6 (amended): as above, with the offsets non-decreasing: a range starts
\* strictly after the previous one exactly when the previous one is not
\* empty, so the offsets are strictly increasing exactly when both lengths
\* are at least 1; no two ranges share a byte.
C6_Layout ==
    last.op = "layout" =>
        LET h == last.arg[1]
            p == last.arg[2]
            f == last.ret
        IN  /\ f[1].start = 8
            /\ \A i \in 1..3 : f[i + 1].start = f[i].end
            /\ \A i \in 1..3 : f[i].start <= f[i + 1].start
            /\ (\A i \in 1..3 : f[i].start < f[i + 1].start) <=> (h >= 1 /\ p >= 1)
            /\ \A i \in 1..4 : \A j \in 1..4 :
                   i < j => f[i].end <= f[j].start
            /\ f[1].end - f[1].start = h /\ f[3].end - f[3].start = h
            /\ f[2].end - f[2].start = p /\ f[4].end - f[4].start = p
            /\ f[4].end = 8 + 2 * h + 2 * p

\* A layout with an empty hardware address: SHA and SPA start at offset 8.
C6_Witness ==
    /\ last.op = "layout"
    /\ last.arg = <<0, 4>>
    /\ last.ret[1] = Field(8, 8)
    /\ last.ret[2] = Field(8, 12)
    /\ last.ret[4] = Field(12, 16)

\* C7: an address mutator given a value whose length differs from the
\* length the header declares for its field panics and leaves every byte of
\* the buffer unchanged.
C7_WrongLengthPanics ==
    last.op \in AddrSetters =>
        LET want == IF last.op \in {"set_source_hardware_addr",
                                    "set_target_hardware_addr"}
                    THEN last.before[5] ELSE last.before[6]
        IN  Len(last.arg) # want =>
                /\ last.ret = "panic"
                /\ state = "panic"
                /\ buffer = last.before

\* A 5-byte source hardware address when HLEN = 6.
C7_Witness ==
    /\ last.op = "set_source_hardware_addr"
    /\ Len(last.before) = 28
    /\ last.before[5] = 6
    /\ Len(last.arg) = 5
    /\ state = "panic"

\* The 16-bit code of an enumeration value.
Code(v) ==
    CASE v.tag = "Ethernet" -> 1
      [] v.tag = "Ipv4"     -> 2048
      [] v.tag = "Request"  -> 1
      [] v.tag = "Reply"    -> 2
      [] v.tag = "Unknown"  -> v.raw

\* An Operation with the named variant in place of Unknown(named code).
CanonOperation(v) ==
    IF v = Unknown(1) THEN Request ELSE IF v = Unknown(2) THEN Reply ELSE v

CanonHardwareType(v) == IF v = Unknown(1) THEN Ethernet ELSE v

CanonProtocolType(v) == IF v = Unknown(2048) THEN Ipv4 ELSE v

\* The 28 bytes of the Ethernet/IPv4 encoding of a Repr.
Canonical(r) ==
    <<0, 1, 8, 0, 6, 4, Code(r.operation) \div 256, Code(r.operation) % 256>>
    \o r.source_hardware_addr \o r.source_protocol_addr
    \o r.target_hardware_addr \o r.target_protocol_addr

EmittedInto28 ==
    /\ last.op = "emit"
    /\ last.arg.tag = "EthernetIpv4"
    /\ Len(last.before) = 28

ParsedAfterEmitInto28 ==
    /\ last.op = "parse"
    /\ last.arg.op = "emit"
    /\ last.arg.arg.tag = "EthernetIpv4"
    /\ Len(last.arg.before) = 28

\* C3 (as claimed): emitting any Repr::EthernetIpv4 (operation Request,
\* Reply or Unknown of any 16-bit code) into a view over a 28-byte buffer
\* succeeds, and parsing that view returns Ok of a Repr equal to the one
\* emitted.
C3_ParseEmitIdentity ==
    /\ EmittedInto28 => last.ret = "unit"
    /\ ParsedAfterEmitInto28 =>
           /\ last.ret.ok
           /\ last.ret.val = last.arg.arg

\* C3 (amended): ... parsing that view returns Ok of the Repr emitted with
\* its operation read back from its 16-bit code: equal to the Repr emitted
\* when the operation is Request, Reply or Unknown of a code other than 1
\* and 2, and with Request for Unknown(1) and Reply for Unknown(2).
C3_ParseEmit ==
    /\ EmittedInto28 => last.ret = "unit"
    /\ ParsedAfterEmitInto28 =>
           LET r == last.arg.arg
           IN  /\ last.ret.ok
               /\ last.ret.val = [r EXCEPT !.operation = CanonOperation(r.operation)]
               /\ (\/ r.operation \in {Request, Reply}
                   \/ r.operation.tag = "Unknown" /\ r.operation.raw \notin {1, 2})
                  => last.ret.val = r
               /\ r.operation = Unknown(1) => last.ret.val.operation = Request
               /\ r.operation = Unknown(2) => last.ret.val.operation = Reply

\* A Repr with an unknown operation code emitted and parsed back.
C3_Witness ==
    /\ ParsedAfterEmitInto28
    /\ last.arg.arg.operation = Unknown(772)
    /\ last.ret.ok
    /\ last.ret.val.operation = Unknown(772)

\* C4: for every 28-byte buffer that parses, emitting the parsed Repr into a
\* view over a 28-byte buffer reproduces the same 28 bytes; PACKET_BYTES
\* parses to packet_repr.
C4_EmitParse ==
    /\ (/\ last.op = "emit"
        /\ repr.tag = "held"
        /\ last.arg = repr.value
        /\ Len(repr.from) = 28
        /\ Len(last.before) = 28)
       => (last.ret = "unit" /\ buffer = repr.from)
    /\ (last.op = "parse" /\ last.before = PACKET_BYTES)
       => (last.ret.ok /\ last.ret.val = packet_repr)

\* PACKET_BYTES parsed, and the Repr emitted into a zeroed 28-byte buffer.
C4_Witness ==
    /\ last.op = "emit"
    /\ repr.tag = "held"
    /\ repr.from = PACKET_BYTES
    /\ last.arg = repr.value
    /\ last.before = Zeros(28)
    /\ buffer = PACKET_BYTES

\* C5: on a structurally valid view, Repr::parse returns Ok exactly when the
\* header holds (Ethernet = 1, IPv4 = 0x0800, 6, 4) and Err otherwise; on
\* success the operation is the one of the 16-bit code at 6..8, whatever the
\* code, and the addresses are the bytes at 8..14, 14..18, 18..24, 24..28;
\* the buffer is not modified.
C5_ParseRecognises ==
    (last.op = "parse" /\ WellFormed(last.before)) =>
        LET b == last.before
            recognised == /\ b[1] = 0 /\ b[2] = 1 /\ b[3] = 8 /\ b[4] = 0
                          /\ b[5] = 6 /\ b[6] = 4
            code == b[7] * 256 + b[8]
        IN  /\ ~last.ret.panic
            /\ last.ret.ok <=> recognised
            /\ buffer = b
            /\ last.ret.ok =>
                   /\ Code(last.ret.val.operation) = code
                   /\ last.ret.val.operation =
                          (IF code = 1 THEN Request
                           ELSE IF code = 2 THEN Reply ELSE Unknown(code))
                   /\ last.ret.val.source_hardware_addr = SubSeq(b, 9, 14)
                   /\ last.ret.val.source_protocol_addr = SubSeq(b, 15, 18)
                   /\ last.ret.val.target_hardware_addr = SubSeq(b, 19, 24)
                   /\ last.ret.val.target_protocol_addr = SubSeq(b, 25, 28)

\* A recognised packet with an unknown operation code parses.
C5_Witness ==
    /\ last.op = "parse"
    /\ Len(last.before) = 29
    /\ last.ret.ok
    /\ last.ret.val.operation = Unknown(772)

\* The number of leading bytes emit has written when it returns or panics
\* on a buffer of n >= 8 bytes, if it writes the header first and then the
\* source hardware, source protocol, target hardware and target protocol
\* addresses, stopping at the first address that does not fit.
WrittenPrefix(n) ==
    IF n < 14 THEN 8 ELSE IF n < 18 THEN 14 ELSE IF n < 24 THEN 18
    ELSE IF n < 28 THEN 24 ELSE 28

\* C8: emit writes the header fields (with HLEN = 6 and PLEN = 4) and then
\* the four addresses in the order source hardware, source protocol, target
\* hardware, target protocol; into a view over a buffer of at least 28
\* bytes it leaves bytes 0..28 equal to the Ethernet/IPv4 encoding of the
\* Repr, whatever HLEN and PLEN the header held on entry, and every byte
\* from offset 28 unchanged.  (On a shorter buffer the order shows in the
\* bytes written before the panic.)
C8_EmitCanonical ==
    (last.op = "emit" /\ last.arg.tag = "EthernetIpv4") =>
        LET n == Len(last.before)
            k == WrittenPrefix(n)
        IN  /\ Len(buffer) = n
            /\ SubSeq(buffer, 1, k) = SubSeq(Canonical(last.arg), 1, k)
            /\ \A i \in (k + 1)..n : buffer[i] = last.before[i]
            /\ (last.ret = "unit") <=> (n >= 28)
            /\ n >= 28 => SubSeq(buffer, 1, 28) = Canonical(last.arg)

\* emit into a 29-byte buffer whose header declared HLEN = 255 on entry.
C8_Witness ==
    /\ last.op = "emit"
    /\ last.arg.tag = "EthernetIpv4"
    /\ Len(last.before) = 29
    /\ last.before[5] = 255
    /\ last.ret = "unit"

Setters ==
    {"set_hardware_type", "set_protocol_type", "set_hardware_length",
     "set_protocol_length", "set_operation"} \cup AddrSetters

\* The 1-based positions of the field a mutator writes, for the header b
\* holds when it is called.
FieldOf(op, b) ==
    LET h == b[5]
        p == b[6]
    IN  CASE op = "set_hardware_type"        -> 1..2
          [] op = "set_protocol_type"        -> 3..4
          [] op = "set_hardware_length"      -> {5}
          [] op = "set_protocol_length"      -> {6}
          [] op = "set_operation"            -> 7..8
          [] op = "set_source_hardware_addr" -> 9..(8 + h)
          [] op = "set_source_protocol_addr" -> (9 + h)..(8 + h + p)
          [] op = "set_target_hardware_addr" -> (9 + h + p)..(8 + 2 * h + p)
          [] op = "set_target_protocol_addr" -> (9 + 2 * h + p)..(8 + 2 * h + 2 * p)

\* The bytes a mutator is to store for a value: big-endian for the 16-bit
\* fields, the byte itself for the lengths, the value for the addresses.
WireOf(op, v) ==
    CASE op \in {"set_hardware_type", "set_protocol_type", "set_operation"}
             -> <<Code(v) \div 256, Code(v) % 256>>
      [] op \in {"set_hardware_length", "set_protocol_length"} -> <<v>>
      [] op \in AddrSetters -> v

\* The accessor matching a mutator, read from b.
AccessorOf(op, b) ==
    CASE op = "set_hardware_type"        -> hardware_type(b)
      [] op = "set_protocol_type"        -> protocol_type(b)
      [] op = "set_hardware_length"      -> hardware_length(b)
      [] op = "set_protocol_length"      -> protocol_length(b)
      [] op = "set_operation"            -> operation(b)
      [] op = "set_source_hardware_addr" -> source_hardware_addr(b)
      [] op = "set_source_protocol_addr" -> source_protocol_addr(b)
      [] op = "set_target_hardware_addr" -> target_hardware_addr(b)
      [] op = "set_target_protocol_addr" -> target_protocol_addr(b)

\* The value with the named variant in place of Unknown(named code).
CanonOf(op, v) ==
    CASE op = "set_hardware_type" -> CanonHardwareType(v)
      [] op = "set_protocol_type" -> CanonProtocolType(v)
      [] op = "set_operation"     -> CanonOperation(v)
      [] OTHER                    -> v

\* The codes of the named variants of the enumeration a mutator takes.
NamedCodes ==
    [op \in {"set_hardware_type", "set_protocol_type", "set_operation"} |->
        CASE op = "set_hardware_type" -> {1}
          [] op = "set_protocol_type" -> {2048}
          [] op = "set_operation"     -> {1, 2}]

SetterSucceeded == last.op \in Setters /\ last.ret = "unit"

\* A successful mutator call stores the wire bytes of its value in its own
\* field and leaves every other byte unchanged.
FrameEffect ==
    SetterSucceeded =>
        LET fld == FieldOf(last.op, last.before)
            w == WireOf(last.op, last.arg)
        IN  /\ Len(buffer) = Len(last.before)
            /\ Len(w) = Cardinality(fld)
            /\ \A i \in 1..Len(buffer) :
                   buffer[i] = (IF i \in fld
                                THEN w[i - (CHOOSE k \in fld : \A j \in fld : k <= j) + 1]
                                ELSE last.before[i])

\* test_construct: the nine fields set header-first on a zeroed 28-byte
\* buffer give the wire bytes.
ConstructGivesWireBytes ==
    pc = 12 => state = "storage" /\ buffer = PACKET_BYTES

\* C9 (as claimed): each successful mutator call changes only the bytes of
\* its own field (16-bit fields big-endian, lengths at offsets 4 and 5,
\* addresses at the range of the current HLEN/PLEN), the matching accessor
\* then returns the value written, and test_construct yields the wire bytes.
C9_FrameAndReadBackIdentity ==
    /\ FrameEffect
    /\ SetterSucceeded =>
           /\ ~AccessorOf(last.op, buffer).panic
           /\ AccessorOf(last.op, buffer).val = last.arg
    /\ ConstructGivesWireBytes

\* C9 (amended): ... the matching accessor then returns the value written,
\* with the named variant in place of an Unknown that carries a named code
\* (Unknown(1) reads back as Ethernet / Request, Unknown(2) as Reply,
\* Unknown(0x0800) as Ipv4); every other value reads back unchanged.
C9_FrameAndReadBack ==
    /\ FrameEffect
    /\ SetterSucceeded =>
           /\ ~AccessorOf(last.op, buffer).panic
           /\ AccessorOf(last.op, buffer).val = CanonOf(last.op, last.arg)
           /\ ~(/\ last.op \in DOMAIN NamedCodes
                 /\ last.arg.tag = "Unknown"
                 /\ last.arg.raw \in NamedCodes[last.op])
              => AccessorOf(last.op, buffer).val = last.arg
    /\ ConstructGivesWireBytes

\* A target hardware address written at the range of HLEN = 6, PLEN = 4.
C9_Witness ==
    /\ last.op = "set_target_hardware_addr"
    /\ last.ret = "unit"
    /\ last.before[5] = 6 /\ last.before[6] = 4
    /\ SubSeq(buffer, 19, 24) = last.arg
    /\ buffer # last.before

\* C10 (as claimed): emit on a view whose buffer is shorter than 28 bytes
\* panics without writing outside the buffer and does not leave the buffer
\* holding a partially written packet: a header that declares HLEN = 6 and
\* PLEN = 4 in a buffer too short for the four addresses.
C10_EmitNoPartialWrite ==
    (/\ last.op = "emit"
     /\ last.arg.tag = "EthernetIpv4"
     /\ WellFormed(last.before)
     /\ Len(last.before) < 28) =>
        /\ last.ret = "panic"
        /\ Len(buffer) = Len(last.before)
        /\ ~(buffer[5] = 6 /\ buffer[6] = 4)

====
